---- MODULE Spec2Model ----
(***************************************************************************)
(* detect_traps (rpg-dm-tools/tools/detect_traps.py): the trap detection   *)
(* tool of the session based role-playing aid.  A call reads the session's *)
(* state.json, looks the current room up in ROOM_TRAPS, rolls d20 + bonus  *)
(* against the trap's DC and returns a result dictionary.                  *)
(*                                                                         *)
(* The model keeps the session files and the trap table as state, and one  *)
(* position per caller, so that calls interleave at the two file system    *)
(* operations (exists, open/load).  Spec is one caller calling again and   *)
(* again; SpecTable lets the trap table hold one more entry;               *)
(* SpecConcurrent is two callers whose calls interleave.                   *)
(***************************************************************************)
EXTENDS Integers, Sequences, FiniteSets, TLC

VARIABLES
    fs,                 \* session id -> the state.json of that session
    room_traps,         \* the module global ROOM_TRAPS as the process holds it
    pc,                 \* caller -> position in detect_traps
    session_id,         \* caller -> argument session_id
    perception_bonus,   \* caller -> argument perception_bonus
    state,              \* caller -> local `state` (the loaded JSON value)
    current_room,       \* caller -> local `current_room`
    die,                \* caller -> what random.randint returned (0: not drawn)
    result,             \* caller -> the dictionary returned
    raised              \* caller -> the exception that left the call ("" if none)

vars == <<fs, room_traps, pc, session_id, perception_bonus, state,
          current_room, die, result, raised>>

----------------------------------------------------------------------------
(* Bounds of the model *)

\* perception_bonus ranges over -MaxBonus .. MaxBonus
MaxBonus == 1

Bonuses == (0 - MaxBonus) .. MaxBonus

Callers == {"c1", "c2"}

SessionIds == {"s1", "s2"}

----------------------------------------------------------------------------
(* JSON values, as json.load returns them *)

JStr(s) == [t |-> "str", v |-> s]
JNum(n) == [t |-> "num", n |-> n]
JNull == [t |-> "null"]
JList == [t |-> "list"]
JObj(f) == [t |-> "obj", f |-> f]

\* no value: a local that is not bound yet
None == [t |-> "unbound"]

NoFields == [k \in {} |-> JNull]

RoomState(room) == JObj([k \in {"current_room"} |-> room])

\* Python's hash(): lists and dicts are unhashable, the other JSON values hash
Hashable(j) == j.t \in {"str", "num", "null"}

----------------------------------------------------------------------------
(* The session files *)

Absent == [kind |-> "absent"]
Unreadable == [kind |-> "unreadable"]
Malformed == [kind |-> "text", ok |-> FALSE]
Json(j) == [kind |-> "text", ok |-> TRUE, json |-> j]

\* The exceptions open() and json.load() raise: type, and str(e)
FileNotFoundError ==
    [type |-> "FileNotFoundError", text |-> "[Errno 2] No such file or directory"]
PermissionError ==
    [type |-> "PermissionError", text |-> "[Errno 13] Permission denied"]
JSONDecodeError ==
    [type |-> "JSONDecodeError", text |-> "Expecting value: line 1 column 1 (char 0)"]

RoomNames == {"darkwood_forest_entrance", "ancient_crypt", "dragon_lair",
              "town_square", "goblin_cave"}

FileContents ==
    {Absent, Unreadable, Malformed, Json(JList), Json(JObj(NoFields)),
     Json(RoomState(JNum(7))), Json(RoomState(JList))}
    \cup {Json(RoomState(JStr(r))) : r \in RoomNames}

----------------------------------------------------------------------------
(* The trap table *)

ROOM_TRAPS ==
    [darkwood_forest_entrance |->
        [has_trap |-> TRUE,
         trap_type |-> "tripwire",
         description |-> "A nearly invisible tripwire stretched across the path, connected to a net trap overhead.",
         difficulty |-> "easy",
         damage |-> "1d6"],
     ancient_crypt |->
        [has_trap |-> TRUE,
         trap_type |-> "pressure_plate",
         description |-> "A stone pressure plate on the floor, likely triggering poison darts from the walls.",
         difficulty |-> "medium",
         damage |-> "2d6"],
     dragon_lair |->
        [has_trap |-> TRUE,
         trap_type |-> "magical_ward",
         description |-> "Glowing runes around the entrance - a magical alarm that will alert the dragon.",
         difficulty |-> "hard",
         damage |-> "3d8"]]

\* The table with one more entry, of any difficulty string
Difficulties == {"easy", "medium", "hard", "deadly", "Easy", ""}

ExtraTrap(d) ==
    [has_trap |-> TRUE, trap_type |-> "pit",
     description |-> "A covered pit.", difficulty |-> d, damage |-> "1d4"]

ExtendedTables ==
    {ROOM_TRAPS} \cup {ROOM_TRAPS @@ ("goblin_cave" :> ExtraTrap(d)) : d \in Difficulties}

\* a bug: difficulty_dc[difficulty] with the easy DC as the fallback
difficulty_dc_easy_default(difficulty) ==
    CASE difficulty = "medium" -> 15
      [] difficulty = "hard" -> 20
      [] OTHER -> 10

\* difficulty_dc.get(difficulty, 15)
DcEasy == 10
DcMedium == 15
DcHard == 20
DcDefault == 15

difficulty_dc(difficulty) ==
    CASE difficulty = "easy" -> DcEasy
      [] difficulty = "medium" -> DcMedium
      [] difficulty = "hard" -> DcHard
      [] OTHER -> DcDefault

\* a bug: random.randrange(1, 20), which never draws 20
DieRandrange == 1 .. 19

\* random.randint(1, 20): both ends included
DieMin == 1
DieMax == 20

Die == DieMin .. DieMax

----------------------------------------------------------------------------
(* The dictionaries detect_traps returns.  A message is the sequence of    *)
(* the pieces its f-string joins (the leading pictograph of the three      *)
(* roll messages is left out: it is not ASCII).                            *)

NoResult == [pending |-> TRUE]

\* a bug: the message is no f-string, the identifier is not put in
NotFoundResultNoId(sid) ==
    [error |-> TRUE,
     message |-> <<"Session '{session_id}' not found. Create a session first with create_session().">>]

NotFoundResult(sid) ==
    [error |-> TRUE,
     message |-> <<"Session '", sid,
                   "' not found. Create a session first with create_session().">>]

ReadErrorResult(e) ==
    [error |-> TRUE,
     message |-> <<"Failed to read session state: ", e>>]

\* a bug: potential_damage is filled from the wrong key of the trap
FoundResultWrongDamage(roll, dc, trap_data) ==
    [success |-> TRUE,
     roll |-> roll,
     dc |-> dc,
     trap_found |-> TRUE,
     trap_type |-> trap_data.trap_type,
     description |-> trap_data.description,
     difficulty |-> trap_data.difficulty,
     potential_damage |-> trap_data.difficulty,
     message |-> <<" Success!">>]

FoundResult(roll, dc, trap_data) ==
    [success |-> TRUE,
     roll |-> roll,
     dc |-> dc,
     trap_found |-> TRUE,
     trap_type |-> trap_data.trap_type,
     description |-> trap_data.description,
     difficulty |-> trap_data.difficulty,
     potential_damage |-> trap_data.damage,
     message |-> <<" Success! (Rolled ", ToString(roll), " vs DC ", ToString(dc),
                   ")\n\nYou carefully scan the area and spot a ",
                   trap_data.trap_type, ":\n", trap_data.description,
                   "\n\nThis trap appears to be ", trap_data.difficulty,
                   " to disarm and could deal ", trap_data.damage,
                   " damage if triggered.">>]

FailedResult(roll, dc) ==
    [success |-> FALSE,
     roll |-> roll,
     dc |-> dc,
     trap_found |-> FALSE,
     message |-> <<" Failed! (Rolled ", ToString(roll), " vs DC ", ToString(dc),
                   ")\n\nYou search the area carefully but don't notice anything suspicious. The room appears safe... or does it?">>]

\* a bug: success taken as "a trap was detected" in the no-trap branch
ClearResultNoSuccess(roll) ==
    [success |-> FALSE,
     roll |-> roll,
     trap_found |-> FALSE,
     message |-> <<" Clear! (Rolled ", ToString(roll), ")">>]

ClearResult(roll) ==
    [success |-> TRUE,
     roll |-> roll,
     trap_found |-> FALSE,
     message |-> <<" Clear! (Rolled ", ToString(roll),
                   ")\n\nYou thoroughly search the area. There are no traps in this location - you can proceed safely.">>]

----------------------------------------------------------------------------
(* The steps of a call *)

\* state_file.exists()
Exists(files, sid) == files[sid].kind # "absent"

\* a bug: open(state_file, 'w') empties the file
OpenTruncate(files, sid) == [files EXCEPT ![sid] = Malformed]

\* open(state_file, 'r'): what the open leaves in the file system
OpenRead(files, sid) == files

\* with open(state_file, 'r') as f: state = json.load(f)
\* the value loaded, or the exception raised inside the try block
JsonLoad(file) ==
    CASE file.kind = "absent" -> [ok |-> FALSE, exc |-> FileNotFoundError]
      [] file.kind = "unreadable" -> [ok |-> FALSE, exc |-> PermissionError]
      [] file.kind = "text" /\ ~file.ok -> [ok |-> FALSE, exc |-> JSONDecodeError]
      [] OTHER -> [ok |-> TRUE, value |-> file.json]

\* a bug: except json.JSONDecodeError lets the I/O errors through
CatchesDecodeOnly(e) == e.type = "JSONDecodeError"

\* except Exception as e: every exception class raised here derives from it
Catches(e) ==
    e.type \in {"FileNotFoundError", "PermissionError", "JSONDecodeError"}

\* state.get("current_room", ""): only a dict has .get
HasGet(j) == j.t = "obj"

\* a bug: state.get("current_room") without the default gives None
GetCurrentRoomNoDefault(j) ==
    IF "current_room" \in DOMAIN j.f THEN j.f["current_room"] ELSE JNull

GetCurrentRoom(j) ==
    IF "current_room" \in DOMAIN j.f THEN j.f["current_room"] ELSE JStr("")

\* current_room in ROOM_TRAPS, for a hashable current_room
InRoomTraps(room, traps) == room.t = "str" /\ room.v \in DOMAIN traps

\* a bug: the roll has to exceed the DC
ResolveStrict(room, traps, roll) ==
    IF InRoomTraps(room, traps)
    THEN LET trap_data == traps[room.v]
             dc == difficulty_dc(trap_data.difficulty)
         IN  IF roll > dc
             THEN FoundResult(roll, dc, trap_data)
             ELSE FailedResult(roll, dc)
    ELSE ClearResult(roll)

\* lines 74-113: the dictionary returned for a hashable room and a roll
Resolve(room, traps, roll) ==
    IF InRoomTraps(room, traps)
    THEN LET trap_data == traps[room.v]
             dc == difficulty_dc(trap_data.difficulty)
         IN  IF roll >= dc
             THEN FoundResult(roll, dc, trap_data)
             ELSE FailedResult(roll, dc)
    ELSE ClearResult(roll)

\* perception_roll = random.randint(1, 20) + perception_bonus
PerceptionRoll(d, b) == d + b

\* the caller calls detect_traps(session_id, perception_bonus)
Call(p) ==
    /\ pc[p] = "idle"
    /\ \E sid \in SessionIds, b \in Bonuses :
          /\ session_id' = [session_id EXCEPT ![p] = sid]
          /\ perception_bonus' = [perception_bonus EXCEPT ![p] = b]
    /\ pc' = [pc EXCEPT ![p] = "exists"]
    /\ UNCHANGED <<fs, room_traps, state, current_room, die, result, raised>>

\* lines 50-57
CheckExists(p) ==
    /\ pc[p] = "exists"
    /\ IF Exists(fs, session_id[p])
       THEN /\ pc' = [pc EXCEPT ![p] = "load"]
            /\ UNCHANGED result
       ELSE /\ pc' = [pc EXCEPT ![p] = "done"]
            /\ result' = [result EXCEPT ![p] = NotFoundResult(session_id[p])]
    /\ UNCHANGED <<fs, room_traps, session_id, perception_bonus, state,
                   current_room, die, raised>>

\* lines 59-68
Load(p) ==
    /\ pc[p] = "load"
    /\ fs' = OpenRead(fs, session_id[p])
    /\ LET loaded == JsonLoad(fs[session_id[p]])
       IN  IF ~loaded.ok
           THEN \* open() or json.load() raised
                /\ pc' = [pc EXCEPT ![p] = "done"]
                /\ IF Catches(loaded.exc)
                   THEN /\ result' = [result EXCEPT ![p] =
                                         ReadErrorResult(loaded.exc.text)]
                        /\ UNCHANGED raised
                   ELSE /\ raised' = [raised EXCEPT ![p] = loaded.exc.type]
                        /\ UNCHANGED result
                /\ UNCHANGED <<state, current_room>>
           ELSE IF HasGet(loaded.value)
           THEN /\ pc' = [pc EXCEPT ![p] = "roll"]
                /\ state' = [state EXCEPT ![p] = loaded.value]
                /\ current_room' = [current_room EXCEPT ![p] =
                                       GetCurrentRoom(loaded.value)]
                /\ UNCHANGED <<result, raised>>
           ELSE \* state.get is outside the try block
                /\ pc' = [pc EXCEPT ![p] = "done"]
                /\ state' = [state EXCEPT ![p] = loaded.value]
                /\ raised' = [raised EXCEPT ![p] = "AttributeError"]
                /\ UNCHANGED <<current_room, result>>
    /\ UNCHANGED <<room_traps, session_id, perception_bonus, die>>

\* lines 70-113
Roll(p) ==
    /\ pc[p] = "roll"
    /\ \E d \in Die :
          LET perception_roll == PerceptionRoll(d, perception_bonus[p])
          IN  /\ die' = [die EXCEPT ![p] = d]
              /\ IF Hashable(current_room[p])
                 THEN /\ result' = [result EXCEPT ![p] =
                            Resolve(current_room[p], room_traps, perception_roll)]
                      /\ UNCHANGED raised
                 ELSE \* `in` hashes its left operand
                      /\ raised' = [raised EXCEPT ![p] = "TypeError"]
                      /\ UNCHANGED result
    /\ pc' = [pc EXCEPT ![p] = "done"]
    /\ UNCHANGED <<fs, room_traps, session_id, perception_bonus, state,
                   current_room>>

\* the caller takes the outcome; the call's locals are gone
Return(p) ==
    /\ pc[p] = "done"
    /\ pc' = [pc EXCEPT ![p] = "idle"]
    /\ session_id' = [session_id EXCEPT ![p] = ""]
    /\ perception_bonus' = [perception_bonus EXCEPT ![p] = 0]
    /\ state' = [state EXCEPT ![p] = None]
    /\ current_room' = [current_room EXCEPT ![p] = None]
    /\ die' = [die EXCEPT ![p] = 0]
    /\ result' = [result EXCEPT ![p] = NoResult]
    /\ raised' = [raised EXCEPT ![p] = ""]
    /\ UNCHANGED <<fs, room_traps>>

detect_traps(p) ==
    \/ Call(p)
    \/ CheckExists(p)
    \/ Load(p)
    \/ Roll(p)
    \/ Return(p)

InitCallers ==
    /\ pc = [p \in Callers |-> "idle"]
    /\ session_id = [p \in Callers |-> ""]
    /\ perception_bonus = [p \in Callers |-> 0]
    /\ state = [p \in Callers |-> None]
    /\ current_room = [p \in Callers |-> None]
    /\ die = [p \in Callers |-> 0]
    /\ result = [p \in Callers |-> NoResult]
    /\ raised = [p \in Callers |-> ""]

Init ==
    /\ fs \in [SessionIds -> FileContents]
    /\ room_traps = ROOM_TRAPS
    /\ InitCallers

\* one caller, calling again and again
Next == detect_traps("c1")

Spec == Init /\ [][Next]_vars

\* the trap table may hold one more entry, of any difficulty string
InitTable ==
    /\ fs \in [SessionIds -> FileContents]
    /\ room_traps \in ExtendedTables
    /\ InitCallers

SpecTable == InitTable /\ [][Next]_vars

\* two callers; one file for each path through the call
ConcurrentContents ==
    {Absent, Malformed, Json(JList),
     Json(RoomState(JStr("darkwood_forest_entrance"))),
     Json(RoomState(JStr("town_square")))}

InitConcurrent ==
    /\ fs \in [SessionIds -> ConcurrentContents]
    /\ room_traps = ROOM_TRAPS
    /\ InitCallers

NextConcurrent == \E p \in Callers : detect_traps(p)

SpecConcurrent == InitConcurrent /\ [][NextConcurrent]_vars

----------------------------------------------------------------------------
(* What the claims read *)

Done(p) == pc[p] = "done"

\* the call ended by returning a dictionary
Returned(p) == Done(p) /\ raised[p] = ""

IsError(r) == "error" \in DOMAIN r

\* the call got as far as the roll and returned
Rolled(p) == Returned(p) /\ ~IsError(result[p])

\* the call's state file parsed to an object whose room is a key of the table
RoomIsKey(p, traps) ==
    /\ state[p].t = "obj"
    /\ current_room[p].t = "str"
    /\ current_room[p].v \in DOMAIN traps

TrapFields == {"trap_type", "description", "difficulty", "potential_damage"}

ErrorShape(r) == DOMAIN r = {"error", "message"} /\ r.error = TRUE

FoundShape(r) ==
    /\ DOMAIN r = {"success", "roll", "dc", "trap_found", "message"} \cup TrapFields
    /\ r.success = TRUE /\ r.trap_found = TRUE

FailedShape(r) ==
    /\ DOMAIN r = {"success", "roll", "dc", "trap_found", "message"}
    /\ r.success = FALSE /\ r.trap_found = FALSE

ClearShape(r) ==
    /\ DOMAIN r = {"success", "roll", "trap_found", "message"}
    /\ r.success = TRUE /\ r.trap_found = FALSE

----------------------------------------------------------------------------
(* C1: when the session file loads and current_room is a key of            *)
(* ROOM_TRAPS, the result has roll = die + perception_bonus, trap_found =  *)
(* TRUE exactly when roll >= dc, and success equal to trap_found; in       *)
(* darkwood_forest_entrance with bonus 0, die 15 finds the tripwire at dc  *)
(* 10 and die 5 fails at dc 10.                                            *)
C1_FoundIffRollMeetsDc ==
    \A p \in Callers :
        (Done(p) /\ RoomIsKey(p, ROOM_TRAPS)) =>
            /\ Rolled(p)
            /\ die[p] \in 1 .. 20
            /\ result[p].roll = die[p] + perception_bonus[p]
            /\ result[p].trap_found = (result[p].roll >= result[p].dc)
            /\ result[p].success = result[p].trap_found
            /\ (/\ current_room[p].v = "darkwood_forest_entrance"
                /\ perception_bonus[p] = 0
                /\ die[p] = 15)
               => (/\ result[p].trap_found = TRUE
                   /\ result[p].dc = 10
                   /\ result[p].trap_type = "tripwire")
            /\ (/\ current_room[p].v = "darkwood_forest_entrance"
                /\ perception_bonus[p] = 0
                /\ die[p] = 5)
               => (/\ result[p].trap_found = FALSE
                   /\ result[p].dc = 10)

\* a roll that exactly meets the DC has found the trap
C1_Witness ==
    /\ Done("c1") /\ RoomIsKey("c1", ROOM_TRAPS)
    /\ current_room["c1"].v = "ancient_crypt"
    /\ result["c1"].roll = 15
    /\ result["c1"].trap_found = TRUE

C3_DcFromDifficulty ==
    \A p \in Callers :
        (Done(p) /\ RoomIsKey(p, room_traps)) =>
            LET d == room_traps[current_room[p].v].difficulty
            IN  /\ Rolled(p)
                /\ "dc" \in DOMAIN result[p]
                /\ d = "easy" => result[p].dc = 10
                /\ d = "medium" => result[p].dc = 15
                /\ d = "hard" => result[p].dc = 20
                /\ d \notin {"easy", "medium", "hard"} => result[p].dc = 15
                /\ current_room[p].v = "darkwood_forest_entrance" => result[p].dc = 10
                /\ current_room[p].v = "ancient_crypt" => result[p].dc = 15
                /\ current_room[p].v = "dragon_lair" => result[p].dc = 20

\* a trap of a difficulty the table of DCs does not know
C3_Witness ==
    /\ Done("c1") /\ RoomIsKey("c1", room_traps)
    /\ room_traps[current_room["c1"].v].difficulty = "deadly"
    /\ result["c1"].dc = 15

(* C4: in every non-error result 1 + bonus <= roll <= 20 + bonus, and      *)
(* before the draw every value of that range is a roll the call can        *)
(* return.                                                                 *)
C4_RollRange ==
    \A p \in Callers :
        /\ Rolled(p) =>
              /\ result[p].roll \in Int
              /\ 1 + perception_bonus[p] <= result[p].roll
              /\ result[p].roll <= 20 + perception_bonus[p]
        /\ (pc[p] = "roll" /\ Hashable(current_room[p])) =>
              \A v \in (1 + perception_bonus[p]) .. (20 + perception_bonus[p]) :
                  ENABLED (Roll(p) /\ result'[p].roll = v)

\* the lowest roll of a negative bonus
C4_Witness ==
    /\ Rolled("c1")
    /\ perception_bonus["c1"] < 0
    /\ result["c1"].roll = 1 + perception_bonus["c1"]

(* C5: when the state file does not exist the result is error = TRUE with  *)
(* a message holding the session identifier, and nothing else: no die is   *)
(* drawn and no room is looked up.                                         *)
C5_MissingSession ==
    \A p \in Callers :
        (Done(p) /\ fs[session_id[p]] = Absent) =>
            /\ Returned(p)
            /\ result[p].error = TRUE
            /\ \E i \in DOMAIN result[p].message :
                  result[p].message[i] = session_id[p]
            /\ DOMAIN result[p] \cap {"roll", "success", "trap_found", "dc"} = {}
            /\ die[p] = 0
            /\ current_room[p] = None

C5_Witness ==
    /\ Done("c1") /\ fs[session_id["c1"]] = Absent
    /\ session_id["c1"] = "s2"
    /\ IsError(result["c1"])

(* C6: when the state file exists but cannot be read or parsed the result  *)
(* is error = TRUE with a message; the exception does not leave the call   *)
(* and no roll or trap field is produced.                                  *)
C6_UnreadableSession ==
    \A p \in Callers :
        (Done(p) /\ fs[session_id[p]] \in {Unreadable, Malformed}) =>
            /\ Returned(p)
            /\ ErrorShape(result[p])
            /\ Len(result[p].message) > 0
            /\ die[p] = 0

C6_Witness ==
    /\ Done("c1") /\ fs[session_id["c1"]] = Unreadable
    /\ IsError(result["c1"])

(* C7: whatever the state file holds, a call ends by returning one of the  *)
(* four outcome records; no exception is raised to the caller.             *)
C7_NoExceptionEscapes ==
    \A p \in Callers :
        Done(p) =>
            /\ raised[p] = ""
            /\ \/ ErrorShape(result[p])
               \/ FoundShape(result[p])
               \/ FailedShape(result[p])
               \/ ClearShape(result[p])

(* C8: detect_traps never writes: no step of any call changes a session    *)
(* file or the trap table, so two calls with the same session, bonus and   *)
(* die value end the same way.                                             *)
SameCallSameResult ==
    \A p, q \in Callers :
        (/\ Done(p) /\ Done(q)
         /\ session_id[p] = session_id[q]
         /\ perception_bonus[p] = perception_bonus[q]
         /\ die[p] = die[q]) =>
            /\ result[p] = result[q]
            /\ raised[p] = raised[q]

C8_NeverWrites ==
    /\ [][fs' = fs /\ room_traps' = room_traps]_vars
    /\ []SameCallSameResult

\* two calls on one session that both rolled the same die
C8_Witness ==
    /\ Rolled("c1") /\ Rolled("c2")
    /\ session_id["c1"] = session_id["c2"]
    /\ perception_bonus["c1"] = perception_bonus["c2"]
    /\ die["c1"] = die["c2"]
    /\ result["c1"].trap_found = TRUE

(* C9: in every non-error result the four trap fields are present exactly  *)
(* when trap_found = TRUE and then equal the room's ROOM_TRAPS entry; dc   *)
(* is present exactly when the room is a key of ROOM_TRAPS; roll and       *)
(* message are always present.                                             *)
C9_ResultFields ==
    \A p \in Callers :
        Rolled(p) =>
            LET r == result[p]
            IN  /\ \A f \in TrapFields : (f \in DOMAIN r) <=> (r.trap_found = TRUE)
                /\ r.trap_found = TRUE =>
                      /\ RoomIsKey(p, ROOM_TRAPS)
                      /\ r.trap_type = ROOM_TRAPS[current_room[p].v].trap_type
                      /\ r.description = ROOM_TRAPS[current_room[p].v].description
                      /\ r.difficulty = ROOM_TRAPS[current_room[p].v].difficulty
                      /\ r.potential_damage = ROOM_TRAPS[current_room[p].v].damage
                /\ ("dc" \in DOMAIN r) <=> RoomIsKey(p, ROOM_TRAPS)
                /\ {"roll", "message"} \subseteq DOMAIN r

C9_Witness ==
    /\ Rolled("c1")
    /\ result["c1"].trap_found = TRUE
    /\ result["c1"].potential_damage = "3d8"

====
